---- MODULE Spec2Model ----
(***************************************************************************)
(* ARQV30 Enhanced v2.0 front end: the Service Worker (sw.js), the         *)
(* synchronous and asynchronous analysis managers (analysis.js), the       *)
(* upload manager (upload.js) and the result renderer, as state machines.  *)
(*                                                                         *)
(* Strings that the code inspects (URLs, file names, the 'segmento' field) *)
(* are sequences of tokens, so that includes(), split() and trim() are     *)
(* computed and not assumed.                                               *)
(***************************************************************************)
EXTENDS Integers, Sequences, FiniteSets, Bags, TLC

(***************************************************************************)
(* Bounds of the model.                                                    *)
(***************************************************************************)
\* user clicks on the two analysis buttons (and form submits) in one run
MaxClicks == 2
\* status requests that may be in flight at the same time
MaxInFlight == 2
\* exports the user asks for in one run
MaxDownloads == 1
\* fetch events the Service Worker handles in one run
MaxRequests == 3
\* files handed to the upload manager in one run
MaxFiles == 2

(***************************************************************************)
(* Token strings.                                                          *)
(***************************************************************************)
\* String.prototype.includes: pat occurs as a contiguous part of s
Includes(s, pat) ==
    \E i \in 1..(Len(s) - Len(pat) + 1) : SubSeq(s, i, i + Len(pat) - 1) = pat

\* String.prototype.startsWith
StartsWith(s, pat) ==
    Len(s) >= Len(pat) /\ SubSeq(s, 1, Len(pat)) = pat

IsSpace(c) == c = " "

\* String.prototype.trim: strips the white space at both ends
RECURSIVE TrimLeft(_)
TrimLeft(s) ==
    IF s # <<>> /\ IsSpace(Head(s)) THEN TrimLeft(Tail(s)) ELSE s

RECURSIVE TrimRight(_)
TrimRight(s) ==
    IF s # <<>> /\ IsSpace(s[Len(s)]) THEN TrimRight(SubSeq(s, 1, Len(s) - 1)) ELSE s

Trim(s) == TrimRight(TrimLeft(s))

(***************************************************************************)
(* Service Worker: constants and request classification.                   *)
(***************************************************************************)
STATIC_CACHE_NAME == "arqv30-static-v2.0"
DYNAMIC_CACHE_NAME == "arqv30-dynamic-v2.0"
CACHE_NAME == "arqv30-enhanced-v2.0"

Origin == <<"http:", "/", "/", "localhost:5000">>

STATIC_FILES ==
    { <<"/">>,
      <<"/", "static", "/", "css", "/", "main", ".", "css">>,
      <<"/", "static", "/", "css", "/", "components", ".", "css">>,
      <<"/", "static", "/", "js", "/", "main", ".", "js">>,
      <<"/", "static", "/", "js", "/", "analysis", ".", "js">>,
      <<"/", "static", "/", "js", "/", "upload", ".", "js">>,
      <<"/", "static", "/", "images", "/", "logo", ".", "png">>,
      <<"https:", "/", "/", "fonts.googleapis.com", "/", "css2?family=Inter">>,
      <<"https:", "/", "/", "cdnjs.cloudflare.com", "/", "ajax", "/", "libs", "/",
        "font-awesome", "/", "all", ".", "min", ".", "css">> }

API_CACHE_PATTERNS ==
    { <<"/", "api", "/", "health">>,
      <<"/", "api", "/", "app_status">>,
      <<"/", "api", "/", "stats">> }

isStaticFile(url) ==
    \/ \E file \in STATIC_FILES : Includes(url, file)
    \/ Includes(url, <<"/", "static", "/">>)
    \/ Includes(url, <<".", "css">>)
    \/ Includes(url, <<".", "js">>)
    \/ Includes(url, <<".", "png">>)
    \/ Includes(url, <<".", "jpg">>)
    \/ Includes(url, <<".", "ico">>)
    \/ Includes(url, <<"fonts.googleapis.com">>)
    \/ Includes(url, <<"cdnjs.cloudflare.com">>)

isAPIRequest(url) ==
    \E pattern \in API_CACHE_PATTERNS : Includes(url, pattern)

isAnalysisRequest(url) ==
    \/ Includes(url, <<"/", "api", "/", "analyze">>)
    \/ Includes(url, <<"/", "api", "/", "upload_attachment">>)
    \/ Includes(url, <<"/", "generate-pdf">>)

\* request.url.startsWith('http'): the scheme token is "http:" or "https:"
StartsWithHttp(url) ==
    StartsWith(url, <<"http:">>) \/ StartsWith(url, <<"https:">>)

\* a fetch listener that handles every method
FetchStrategy_AnyMethod(method, url) ==
    IF ~StartsWithHttp(url) THEN "none"
    ELSE IF isStaticFile(url) THEN "cacheFirst"
    ELSE IF isAPIRequest(url) THEN "networkFirstWithCache"
    ELSE IF isAnalysisRequest(url) THEN "networkOnly"
    ELSE "staleWhileRevalidate"

\* The fetch listener's dispatch: "none" when it returns without respondWith.
FetchStrategy(method, url) ==
    IF method # "GET" THEN "none"
    ELSE IF ~StartsWithHttp(url) THEN "none"
    ELSE IF isStaticFile(url) THEN "cacheFirst"
    ELSE IF isAPIRequest(url) THEN "networkFirstWithCache"
    ELSE IF isAnalysisRequest(url) THEN "networkOnly"
    ELSE "staleWhileRevalidate"

(***************************************************************************)
(* Cache storage and responses.  The storage maps the name of each         *)
(* existing cache to its entries (URL -> body).  A response is a record;   *)
(* "src" tells where the bytes come from: the network, a cache, a Response *)
(* the worker builds itself, or no response at all (the fetch rejects).    *)
(***************************************************************************)
\* caches.match looks through the caches in the order they were created:
\* the cache of an earlier release, the one opened at install, the one
\* opened by the first dynamic put.
CacheOrder == <<CACHE_NAME, STATIC_CACHE_NAME, DYNAMIC_CACHE_NAME>>

NetworkResponse(status, body) == [src |-> "network", status |-> status, body |-> body]
CachedResponse(body) == [src |-> "cache", status |-> 200, body |-> body]
SynthResponse(body) == [src |-> "synth", status |-> 503, body |-> body]
FetchRejected == [src |-> "error", status |-> 0, body |-> "TypeError"]

\* response.ok
IsOk(resp) == resp.status >= 200 /\ resp.status <= 299

\* cache.match(request) in one cache: <<body>> or <<>>
CacheMatch(cs, name, url) ==
    IF name \in DOMAIN cs /\ url \in DOMAIN cs[name] THEN <<cs[name][url]>> ELSE <<>>

\* caches.match(request): the first cache, in creation order, that holds it
RECURSIVE CachesMatchFrom(_, _, _)
CachesMatchFrom(cs, url, i) ==
    IF i > Len(CacheOrder) THEN <<>>
    ELSE IF CacheMatch(cs, CacheOrder[i], url) # <<>> THEN CacheMatch(cs, CacheOrder[i], url)
    ELSE CachesMatchFrom(cs, url, i + 1)

CachesMatch(cs, url) == CachesMatchFrom(cs, url, 1)

\* caches.open(name): creates the cache when it does not exist
CachesOpen(cs, name) ==
    IF name \in DOMAIN cs THEN cs ELSE cs @@ (name :> <<>>)

\* caches.open(name) followed by cache.put(request, response)
CachePut(cs, name, url, body) ==
    LET opened == CachesOpen(cs, name)
        entries == opened[name]
        stored == [u \in (DOMAIN entries) \cup {url} |->
                      IF u = url THEN body ELSE entries[u]]
    IN [opened EXCEPT ![name] = stored]

(***************************************************************************)
(* The four strategies, each in two halves: what the worker does when the  *)
(* fetch event arrives (up to its first await on the network), and what it *)
(* does when the network has answered.  "out" is the network's answer:     *)
(* [kind |-> "ok" | "notok" | "fail", body |-> ...].                       *)
(***************************************************************************)
NetOutcomes == {"ok", "notok", "fail"}

FromNetwork(out) ==
    IF out.kind = "ok" THEN NetworkResponse(200, out.body)
    ELSE NetworkResponse(500, "error_page")

\* a cacheFirst that goes to the network without looking in the caches
cacheFirstStart_NoLookup(cs, url) == [resp |-> <<>>, net |-> TRUE, cs |-> cs]

cacheFirstStart(cs, url) ==
    LET cachedResponse == CachesMatch(cs, url)
    IN IF cachedResponse # <<>>
       THEN [resp |-> <<CachedResponse(cachedResponse[1])>>, net |-> FALSE, cs |-> cs]
       ELSE [resp |-> <<>>, net |-> TRUE, cs |-> cs]

cacheFirstNetwork(cs, url, out) ==
    IF out.kind = "fail"
    THEN [resp |-> SynthResponse("offline_text"), cs |-> cs]
    ELSE IF IsOk(FromNetwork(out))
    THEN [resp |-> FromNetwork(out), cs |-> CachePut(cs, STATIC_CACHE_NAME, url, out.body)]
    ELSE [resp |-> FromNetwork(out), cs |-> cs]

networkFirstWithCacheNetwork(cs, url, out) ==
    IF out.kind # "fail" /\ IsOk(FromNetwork(out))
    THEN [resp |-> FromNetwork(out), cs |-> CachePut(cs, DYNAMIC_CACHE_NAME, url, out.body)]
    ELSE LET cachedResponse == CachesMatch(cs, url)
         IN IF cachedResponse # <<>>
            THEN [resp |-> CachedResponse(cachedResponse[1]), cs |-> cs]
            ELSE [resp |-> SynthResponse("offline_json"), cs |-> cs]

networkOnlyNetwork(cs, url, out) ==
    IF out.kind = "fail"
    THEN [resp |-> SynthResponse("offline_json"), cs |-> cs]
    ELSE [resp |-> FromNetwork(out), cs |-> cs]

staleWhileRevalidateStart(cs, url) ==
    LET opened == CachesOpen(cs, DYNAMIC_CACHE_NAME)
        cachedResponse == CacheMatch(opened, DYNAMIC_CACHE_NAME, url)
    IN [resp |-> IF cachedResponse # <<>> THEN <<CachedResponse(cachedResponse[1])>> ELSE <<>>,
        net |-> TRUE, cs |-> opened]

\* early is what staleWhileRevalidateStart answered (<<>> when nothing was cached)
staleWhileRevalidateNetwork(cs, url, out, early) ==
    IF out.kind = "fail"
    THEN [resp |-> IF early # <<>> THEN early[1] ELSE FetchRejected, cs |-> cs]
    ELSE IF IsOk(FromNetwork(out))
    THEN [resp |-> FromNetwork(out), cs |-> CachePut(cs, DYNAMIC_CACHE_NAME, url, out.body)]
    ELSE [resp |-> FromNetwork(out), cs |-> cs]

\* The fetch event: [resp |-> <<r>> when the page is answered at once,
\* net |-> a network request is made, cs |-> the storage afterwards].
SWStart(cs, strategy, url) ==
    IF strategy = "cacheFirst" THEN cacheFirstStart(cs, url)
    ELSE IF strategy = "staleWhileRevalidate" THEN staleWhileRevalidateStart(cs, url)
    ELSE [resp |-> <<>>, net |-> TRUE, cs |-> cs]

\* The network has answered: [resp |-> the response the strategy returns,
\* cs |-> the storage afterwards].  Strategy "none" is the browser's own fetch.
SWNetwork(cs, strategy, url, out, early) ==
    IF strategy = "cacheFirst" THEN cacheFirstNetwork(cs, url, out)
    ELSE IF strategy = "networkFirstWithCache" THEN networkFirstWithCacheNetwork(cs, url, out)
    ELSE IF strategy = "networkOnly" THEN networkOnlyNetwork(cs, url, out)
    ELSE IF strategy = "staleWhileRevalidate" THEN staleWhileRevalidateNetwork(cs, url, out, early)
    ELSE [resp |-> IF out.kind = "fail" THEN FetchRejected ELSE FromNetwork(out), cs |-> cs]

(***************************************************************************)
(* State.                                                                  *)
(***************************************************************************)
VARIABLES
    \* the user and what the last step did
    clicks,              \* user actions so far (also the reading of Date.now())
    fx,                  \* the last step: [op, input, task, msg, sent] (the handler, the
                         \* value of 'segmento' it read, the task or analysis whose
                         \* response it handled, the alert it raised, the request it issued)
    \* AnalysisManager
    isAnalyzing, currentStep, analysisStartTime,
    syncReqs,            \* POST /api/analyze requests awaiting their response
    animTimers,          \* analysis -> currentStepIndex of its pending updateStep timeout
    displayTimers,       \* analyses whose displayResults timeout is pending
    progressArea, resultsArea,
    \* AsyncAnalysisManager
    currentTaskId, statusCheckInterval,
    timers,              \* interval timers the browser keeps running
    nextTimerId,         \* the handle the next setInterval returns
    asyncPosts,          \* POST /api/analyze_async requests awaiting their response
    polls,               \* bag of the status requests in flight
    asyncProgressArea,
    lastResult,          \* localStorage 'last_analysis_result': the task it belongs to (0: none)
    \* the task queue behind /api/task_status
    taskState,
    \* exports
    downloadPdfBtn,      \* the analysis whose result #downloadPdfBtn downloads (0: hidden)
    pdfReqs,             \* PDF generation requests awaiting their response
    downloads,           \* exports asked for so far
    \* Service Worker
    swPhase,             \* "parsed", "installed" (waitUntil of install resolved), "activated"
    swControlled,        \* the page's requests pass through the worker's fetch listener
    caches,              \* CacheStorage: cache name -> (URL -> body)
    swReqs,              \* fetch events waiting for the network
    swFx,                \* the worker's last step: [op, method, url, strategy, out, resp]
    served,              \* fetch events so far
    serverVersion,       \* the release the server answers with
    \* the renderer
    analysisResult,      \* the analysis result handed to the render functions
    rendered,            \* [fn, out]: the render function that ran last and the markup it left
    \* the progress display of the asynchronous flow
    taskStatus,          \* the body of the last poll response handed to updateProgressUI
    progressUI,          \* [width, step, counter, phase]: .progress-fill's width and the
                         \* text of #asyncCurrentStep, #asyncStepCounter and #asyncPhase
    \* the session identifiers
    appSessionId,        \* window.app.sessionId ("undefined" without window.app)
    storedSessionId,     \* localStorage 'arqv30_session_id' ("null" when not set)
    \* FileUploadManager
    fileItems,           \* the .file-item elements in #uploadedFiles: id -> [name, status]
    xhrs,                \* upload requests in flight
    filesHandled,        \* files handed to processFile so far
    upFx                 \* the upload manager's last step: [op, file, msg, item, element,
                         \* sent, answer] (item: the element made for the file, element: the
                         \* one uploadFile works on, answer: the server's status and body)

syncVars == <<isAnalyzing, currentStep, analysisStartTime, syncReqs, animTimers,
              displayTimers, progressArea>>
asyncVars == <<currentTaskId, statusCheckInterval, timers, nextTimerId, asyncPosts,
               polls, asyncProgressArea, lastResult, taskState>>
exportVars == <<downloadPdfBtn, pdfReqs, downloads>>
pageVars == <<clicks, fx, syncVars, resultsArea, asyncVars, exportVars>>
eventVars == <<swReqs, swFx, served, serverVersion>>
renderVars == <<analysisResult, rendered>>
progressVars == <<taskStatus, progressUI>>
sessionVars == <<appSessionId, storedSessionId>>
uploadVars == <<fileItems, xhrs, filesHandled, upFx>>
\* what the analysis managers never touch
offPage == <<swPhase, eventVars, renderVars, progressVars, appSessionId, uploadVars>>

(***************************************************************************)
(* The form.                                                               *)
(***************************************************************************)
\* values the user leaves in 'segmento': empty, blank, text between blanks
SegmentoValues == { <<>>, <<" ", " ">>, <<" ", "saude", " ">> }

\* validateForm without the trim()
validateForm_NoTrim(value) == Len(value) > 0

\* validateForm (both managers): the trimmed value is non-empty
validateForm(value) == Len(Trim(value)) > 0

Fx(op, input, msg, sent) ==
    [op |-> op, input |-> input, task |-> 0, msg |-> msg, sent |-> sent]
\* the interval callback handled a status response of task t that carried state
FxStatus(t, state, msg) ==
    [op |-> "statusResponse", input |-> <<state>>, task |-> t, msg |-> msg, sent |-> "none"]
\* a step of a timer, the network or the server that raises no alert
Quiet == Fx("none", <<>>, "none", "none")

\* 'session_' + Date.now() + '_' + Math.random()...: the identifiers the clock
\* and the random generator can give
SessionIds == {"session_1_a", "session_2_b"}

\* getSessionId (both managers): the identifier localStorage holds, a newly
\* generated one (stored at once) when it holds none
getSessionId(stored, generated) == IF stored = "null" THEN generated ELSE stored

\* window.app?.sessionId || 'default_session'
uploadSessionId(app) == IF app = "undefined" THEN "default_session" ELSE app

(***************************************************************************)
(* AnalysisManager (synchronous analysis).                                 *)
(***************************************************************************)
totalSteps == 8
\* steps.length in startProgressAnimation
StepsLength == 8

\* a startAnalysis without the isAnalyzing test
StartAnalysis_NoGuard(value) ==
    /\ clicks < MaxClicks
    /\ clicks' = clicks + 1
    /\ IF ~validateForm(value)
       THEN /\ fx' = Fx("startAnalysis", value, "validation", "none")
            /\ UNCHANGED <<syncVars, resultsArea, storedSessionId>>
       ELSE /\ isAnalyzing' = TRUE
            /\ analysisStartTime' = clicks'
            /\ currentStep' = 1
            /\ animTimers' = animTimers @@ (clicks' :> 0)
            /\ progressArea' = "block"
            /\ resultsArea' = "none"
            /\ syncReqs' = syncReqs \cup {clicks'}
            \* collectFormData: session_id is getSessionId()
            /\ storedSessionId' \in {getSessionId(storedSessionId, generated) :
                                       generated \in SessionIds}
            /\ fx' = Fx("startAnalysis", value, "none", "POST /api/analyze")
            /\ UNCHANGED <<displayTimers>>
    /\ UNCHANGED <<asyncVars, swControlled, caches, exportVars, offPage>>

\* startAnalysis: the handler up to its await on fetch('/api/analyze'), with
\* value in the 'segmento' field
StartAnalysis(value) ==
    /\ clicks < MaxClicks
    /\ clicks' = clicks + 1
    /\ IF isAnalyzing
       THEN /\ fx' = Fx("startAnalysis", value, "none", "none")
            /\ UNCHANGED <<syncVars, resultsArea, storedSessionId>>
       ELSE IF ~validateForm(value)
       THEN /\ fx' = Fx("startAnalysis", value, "validation", "none")
            /\ UNCHANGED <<syncVars, resultsArea, storedSessionId>>
       ELSE /\ isAnalyzing' = TRUE
            /\ analysisStartTime' = clicks'
            \* currentStep = 0, then updateStep() runs at once with index 0
            /\ currentStep' = 1
            /\ animTimers' = animTimers @@ (clicks' :> 0)
            \* showProgressArea
            /\ progressArea' = "block"
            /\ resultsArea' = "none"
            /\ syncReqs' = syncReqs \cup {clicks'}
            \* collectFormData: session_id is getSessionId()
            /\ storedSessionId' \in {getSessionId(storedSessionId, generated) :
                                       generated \in SessionIds}
            /\ fx' = Fx("startAnalysis", value, "none", "POST /api/analyze")
            /\ UNCHANGED <<displayTimers>>
    /\ UNCHANGED <<asyncVars, swControlled, caches, exportVars, offPage>>

\* the setTimeout of updateStep: currentStepIndex++, updateStep()
AnimTimer(a) ==
    /\ a \in DOMAIN animTimers
    /\ LET currentStepIndex == animTimers[a] + 1
       IN IF currentStepIndex < StepsLength /\ isAnalyzing
          THEN /\ currentStep' = currentStepIndex + 1
               /\ animTimers' = [animTimers EXCEPT ![a] = currentStepIndex]
          ELSE /\ animTimers' = [b \in (DOMAIN animTimers) \ {a} |-> animTimers[b]]
               /\ UNCHANGED currentStep
    /\ fx' = Quiet
    /\ UNCHANGED <<clicks, isAnalyzing, analysisStartTime, syncReqs,
                   displayTimers, progressArea, resultsArea, asyncVars,
                   swControlled, caches, exportVars, storedSessionId, offPage>>

\* startAnalysis after the await: the response (or the rejection) of the POST.
\* The worker's fetch listener returns at once for a POST.
SyncResponse(a, kind) ==
    /\ a \in syncReqs
    /\ syncReqs' = syncReqs \ {a}
    /\ IF kind = "ok"
       THEN \* completeProgress, setTimeout(displayResults, 1000)
            /\ currentStep' = totalSteps
            /\ displayTimers' = displayTimers \cup {a}
            /\ fx' = Fx("analyzeResponse", <<>>, "none", "none")
       ELSE /\ fx' = Fx("analyzeResponse", <<>>, "error", "none")
            /\ UNCHANGED <<currentStep, displayTimers>>
    \* finally
    /\ isAnalyzing' = FALSE
    /\ UNCHANGED <<clicks, analysisStartTime, animTimers, progressArea,
                   resultsArea, asyncVars, swControlled, caches, exportVars, storedSessionId, offPage>>

\* the timeout set after a successful response: displayResults(result)
DisplayTimer(a) ==
    /\ a \in displayTimers
    /\ displayTimers' = displayTimers \ {a}
    /\ resultsArea' = "block"
    /\ progressArea' = "none"
    \* enablePdfDownload(result)
    /\ downloadPdfBtn' = a
    /\ fx' = [Quiet EXCEPT !.op = "displayResults", !.task = a]
    /\ UNCHANGED <<clicks, isAnalyzing, currentStep, analysisStartTime,
                   syncReqs, animTimers, asyncVars, swControlled, caches, pdfReqs, downloads,
                   storedSessionId, offPage>>

(***************************************************************************)
(* AsyncAnalysisManager and the task queue it polls.                       *)
(***************************************************************************)
TaskStates == {"PENDING", "PROGRESS", "SUCCESS", "FAILURE"}
Terminal == {"SUCCESS", "FAILURE"}

\* `/api/task_status/${this.currentTaskId}`, resolved against the page's origin
TaskStatusUrl(t) == Origin \o <<"/", "api", "/", "task_status", "/", ToString(t)>>

InFlight == BagToSet(polls)

\* startAsyncAnalysis: the handler up to its await on fetch('/api/analyze_async'),
\* with value in the 'segmento' field
StartAsyncAnalysis(value) ==
    /\ clicks < MaxClicks
    /\ clicks' = clicks + 1
    /\ IF ~validateForm(value)
       THEN /\ fx' = Fx("startAsyncAnalysis", value, "validation", "none")
            /\ UNCHANGED <<asyncPosts, storedSessionId>>
       ELSE /\ asyncPosts' = asyncPosts + 1
            \* collectFormData: session_id is getSessionId()
            /\ storedSessionId' \in {getSessionId(storedSessionId, generated) :
                                       generated \in SessionIds}
            /\ fx' = Fx("startAsyncAnalysis", value, "none", "POST /api/analyze_async")
    /\ UNCHANGED <<syncVars, resultsArea, currentTaskId, statusCheckInterval,
                   timers, nextTimerId, polls, asyncProgressArea, lastResult, taskState,
                   swControlled, caches, exportVars, offPage>>

\* stopStatusMonitoring: [interval, timers] afterwards
stopStatusMonitoring(interval, running) ==
    IF interval # 0
    THEN [statusCheckInterval |-> 0, timers |-> running \ {interval}]
    ELSE [statusCheckInterval |-> interval, timers |-> running]

\* startStatusMonitoring: [interval, timers, next handle] afterwards
startStatusMonitoring(taskId, interval, running, handle) ==
    IF taskId = 0
    THEN [statusCheckInterval |-> interval, timers |-> running, nextTimerId |-> handle]
    ELSE [statusCheckInterval |-> handle, timers |-> running \cup {handle},
          nextTimerId |-> handle + 1]

\* startAsyncAnalysis after the await: the server has queued a task and answered
\* with its task_id (kind "ok"), or the POST failed.
AsyncPostResponse(kind) ==
    /\ asyncPosts > 0
    /\ asyncPosts' = asyncPosts - 1
    /\ IF kind = "ok"
       THEN LET t == Len(taskState) + 1
                m == startStatusMonitoring(t, statusCheckInterval, timers, nextTimerId)
            IN /\ taskState' = Append(taskState, "PENDING")
               /\ currentTaskId' = t
               \* showAsyncProgress
               /\ asyncProgressArea' = "block"
               /\ resultsArea' = "none"
               /\ statusCheckInterval' = m.statusCheckInterval
               /\ timers' = m.timers
               /\ nextTimerId' = m.nextTimerId
               /\ fx' = Fx("analyzeAsyncResponse", <<>>, "started", "none")
       ELSE /\ fx' = Fx("analyzeAsyncResponse", <<>>, "error", "none")
            /\ UNCHANGED <<taskState, currentTaskId, asyncProgressArea, resultsArea,
                           statusCheckInterval, timers, nextTimerId>>
    /\ UNCHANGED <<clicks, syncVars, polls, lastResult, swControlled, caches, exportVars, storedSessionId, offPage>>

\* the task queue works on a task
ServerStep(t, next) ==
    /\ t \in DOMAIN taskState
    /\ \/ taskState[t] = "PENDING" /\ next = "PROGRESS"
       \/ taskState[t] = "PROGRESS" /\ next \in Terminal
    /\ taskState' = [taskState EXCEPT ![t] = next]
    /\ fx' = Quiet
    /\ UNCHANGED <<clicks, syncVars, resultsArea, currentTaskId,
                   statusCheckInterval, timers, nextTimerId, asyncPosts, polls,
                   asyncProgressArea, lastResult, swControlled, caches, exportVars, storedSessionId, offPage>>

\* The strategy the page's GET is served with: the worker's, when it controls
\* the page, and the browser's own fetch otherwise.
PageStrategy(url) == IF swControlled THEN FetchStrategy("GET", url) ELSE "none"

\* The interval callback up to its await on fetch: timer id fires and requests
\* the status of the task currentTaskId names now.  early is what the worker
\* answers without the network (<<>>: it waits for the network).
Tick(id) ==
    /\ id \in timers
    /\ BagCardinality(polls) < MaxInFlight
    /\ LET url == TaskStatusUrl(currentTaskId)
           strategy == PageStrategy(url)
           st == SWStart(caches, strategy, url)
           poll == [task |-> currentTaskId, strategy |-> strategy, early |-> st.resp,
                    net |-> st.net]
       IN /\ polls' = polls (+) SetToBag({poll})
          /\ caches' = st.cs
    /\ fx' = Fx("tick", <<>>, "none", "GET /api/task_status")
    /\ UNCHANGED <<clicks, syncVars, resultsArea, currentTaskId,
                   statusCheckInterval, timers, nextTimerId, asyncPosts,
                   asyncProgressArea, lastResult, taskState, swControlled, exportVars, storedSessionId, offPage>>

\* response.json(): the state the body carries, "undefined" for a JSON body
\* without a state, "throws" when there is no response or no JSON in it
ParseStatus(resp) ==
    IF resp.src = "error" THEN "throws"
    ELSE IF resp.body \in TaskStates THEN resp.body
    ELSE IF resp.body = "offline_json" THEN "undefined"
    ELSE "throws"

\* an interval callback whose catch gives up polling
OnStatus_StopOnError(task, state) ==
    LET stopped == stopStatusMonitoring(statusCheckInterval, timers)
    IN IF state \in {"SUCCESS", "FAILURE", "throws"}
       THEN /\ asyncProgressArea' = "none"
            /\ lastResult' = IF state = "SUCCESS" THEN task ELSE lastResult
            /\ statusCheckInterval' = stopped.statusCheckInterval
            /\ timers' = stopped.timers
            /\ fx' = FxStatus(task, state,
                              IF state = "SUCCESS" THEN "complete" ELSE "analysisError")
       ELSE /\ fx' = FxStatus(task, state, "progress")
            /\ UNCHANGED <<asyncProgressArea, lastResult, statusCheckInterval, timers>>

\* The interval callback after its awaits, for the status body it parsed.
OnStatus(task, state) ==
    LET stopped == stopStatusMonitoring(statusCheckInterval, timers)
    IN IF state = "throws"
       THEN \* catch: console.error
            /\ fx' = FxStatus(task, state, "none")
            /\ UNCHANGED <<asyncProgressArea, lastResult,
                           statusCheckInterval, timers>>
       ELSE \* updateProgressUI(status)
            /\ IF state = "SUCCESS"
               THEN \* onAnalysisComplete(status.result), stopStatusMonitoring
                    /\ asyncProgressArea' = "none"
                    /\ lastResult' = task
                    /\ statusCheckInterval' = stopped.statusCheckInterval
                    /\ timers' = stopped.timers
                    /\ fx' = FxStatus(task, state, "complete")
               ELSE IF state = "FAILURE"
               THEN \* onAnalysisError(status.error), stopStatusMonitoring
                    /\ asyncProgressArea' = "none"
                    /\ statusCheckInterval' = stopped.statusCheckInterval
                    /\ timers' = stopped.timers
                    /\ fx' = FxStatus(task, state, "analysisError")
                    /\ UNCHANGED lastResult
               ELSE /\ fx' = FxStatus(task, state, "progress")
                    /\ UNCHANGED <<asyncProgressArea, lastResult, statusCheckInterval,
                                   timers>>

\* A status request the worker answered from its cache reaches the page.
PollFromCache(poll) ==
    /\ poll \in InFlight
    /\ ~poll.net
    /\ polls' = polls (-) SetToBag({poll})
    /\ OnStatus(poll.task, ParseStatus(poll.early[1]))
    /\ UNCHANGED <<clicks, syncVars, resultsArea, currentTaskId, nextTimerId,
                   asyncPosts, taskState, swControlled, caches, exportVars, storedSessionId, offPage>>

\* The network answers a status request (the task's state as JSON: "ok", an
\* error page: "notok", nothing: "fail"), the strategy finishes and the
\* response reaches the page.
PollFromNetwork(poll, kind) ==
    /\ poll \in InFlight
    /\ poll.net
    /\ LET out == [kind |-> kind, body |-> taskState[poll.task]]
           fin == SWNetwork(caches, poll.strategy, TaskStatusUrl(poll.task), out, poll.early)
           resp == IF poll.early # <<>> THEN poll.early[1] ELSE fin.resp
       IN /\ caches' = fin.cs
          /\ OnStatus(poll.task, ParseStatus(resp))
    /\ polls' = polls (-) SetToBag({poll})
    /\ UNCHANGED <<clicks, syncVars, resultsArea, currentTaskId, nextTimerId,
                   asyncPosts, taskState, swControlled, exportVars, storedSessionId, offPage>>

(***************************************************************************)
(* Exports: the PDF button of the synchronous flow and downloadReport of   *)
(* the interactive dashboard.                                              *)
(***************************************************************************)
\* a step that exported (or failed to export) the result of task or analysis t;
\* its input is the format, followed by "getItem" when localStorage was read
FxExport(op, format, t, msg, sent) ==
    [op |-> op, input |-> format, task |-> t, msg |-> msg, sent |-> sent]

\* AnalysisManager.downloadPdf(result) up to its await on fetch: the click on
\* #downloadPdfBtn, which displayResults made visible
DownloadPdf ==
    /\ downloadPdfBtn # 0
    /\ downloads < MaxDownloads
    /\ downloads' = downloads + 1
    /\ pdfReqs' = pdfReqs \cup {[id |-> downloads', method |-> "POST", url |-> "/generate-pdf",
                                 flow |-> "sync", task |-> downloadPdfBtn]}
    /\ fx' = FxExport("downloadPdf", <<"pdf">>, downloadPdfBtn, "none", "POST /generate-pdf")
    /\ UNCHANGED <<clicks, syncVars, resultsArea, asyncVars, downloadPdfBtn, swControlled,
                   caches, storedSessionId, offPage>>

\* JSON.parse(localStorage.getItem('last_analysis_result')) is null when
\* nothing was stored; generateTXTReport(null) throws on result.task_metadata
TXTReportThrows(stored) == stored = 0

\* a downloadReport that exports whether or not a task was started
hasTask_Always(taskId) == TRUE

\* this.currentTaskId is truthy
hasTask(taskId) == taskId # 0

\* AsyncAnalysisManager.downloadReport(format) up to the await of downloadPDF
DownloadReport(format) ==
    /\ downloads < MaxDownloads
    /\ downloads' = downloads + 1
    /\ IF ~hasTask(currentTaskId)
       THEN /\ fx' = FxExport("downloadReport", <<format>>, 0, "noAnalysis", "none")
            /\ UNCHANGED pdfReqs
       ELSE LET read == <<format, "getItem">>
            IN IF format = "txt"
               THEN /\ fx' = IF TXTReportThrows(lastResult)
                             THEN FxExport("downloadReport", read, lastResult,
                                           "downloadError", "none")
                             ELSE FxExport("downloadReport", read, lastResult,
                                           "download", "none")
                    /\ UNCHANGED pdfReqs
               ELSE IF format = "pdf"
               THEN /\ pdfReqs' = pdfReqs \cup {[id |-> downloads', method |-> "POST",
                                                 url |-> "/api/generate_pdf",
                                                 flow |-> "async", task |-> lastResult]}
                    /\ fx' = FxExport("downloadReport", read, lastResult, "none",
                                      "POST /api/generate_pdf")
               ELSE IF format = "json"
               THEN /\ fx' = FxExport("downloadReport", read, lastResult, "download", "none")
                    /\ UNCHANGED pdfReqs
               ELSE /\ fx' = FxExport("downloadReport", read, lastResult, "none", "none")
                    /\ UNCHANGED pdfReqs
    /\ UNCHANGED <<clicks, syncVars, resultsArea, asyncVars, downloadPdfBtn, swControlled,
                   caches, storedSessionId, offPage>>

\* downloadPdf / downloadPDF after the await: the PDF is downloaded (kind
\* "ok"), or the error is shown
PdfResponse(req, kind) ==
    /\ req \in pdfReqs
    /\ pdfReqs' = pdfReqs \ {req}
    /\ fx' = FxExport("pdfResponse", <<"pdf">>, req.task,
                      IF kind = "ok" THEN "download" ELSE "downloadError", "none")
    /\ UNCHANGED <<clicks, syncVars, resultsArea, asyncVars, downloadPdfBtn, downloads,
                   swControlled, caches, storedSessionId, offPage>>

\* the formats of the dashboard's buttons, and one it has no button for
Formats == {"txt", "pdf", "json", "docx"}

NextReport ==
    \/ \E format \in Formats : DownloadReport(format)
    \/ \E req \in pdfReqs, kind \in NetOutcomes : PdfResponse(req, kind)

(***************************************************************************)
(* Service Worker: install, activate, fetch events, the cleanup timer.     *)
(***************************************************************************)
\* a URL of STATIC_FILES as cache.addAll requests it: relative ones are
\* resolved against the worker's origin
Resolve(file) == IF StartsWithHttp(file) THEN file ELSE Origin \o file

\* cache.addAll(STATIC_FILES) when every request succeeded
AddAll(cs, name, body) ==
    LET entries == cs[name]
        urls == {Resolve(file) : file \in STATIC_FILES}
        stored == [u \in (DOMAIN entries) \cup urls |->
                      IF u \in urls THEN body ELSE entries[u]]
    IN [cs EXCEPT ![name] = stored]

\* cacheName.startsWith('arqv30-'), for the names this origin has used
StartsWithArqv30(cacheName) ==
    cacheName \in {CACHE_NAME, STATIC_CACHE_NAME, DYNAMIC_CACHE_NAME}

SwFx(op, method, url, strategy, out, resp) ==
    [op |-> op, method |-> method, url |-> url, strategy |-> strategy,
     out |-> out, resp |-> resp]
SwQuiet == SwFx("none", "none", <<>>, "none", "none", <<>>)

\* The install event: caches.open, cache.addAll (kind: what the network did
\* with the requests of addAll), skipWaiting, and the catch that ends the
\* chain.  Either way the promise handed to waitUntil resolves.
Install(kind) ==
    /\ swPhase = "parsed"
    /\ LET opened == CachesOpen(caches, STATIC_CACHE_NAME)
       IN caches' = IF kind = "ok"
                    THEN AddAll(opened, STATIC_CACHE_NAME, serverVersion)
                    ELSE opened
    /\ swPhase' = "installed"
    /\ swFx' = SwFx("install", "none", <<>>, "none", kind, <<>>)
    /\ UNCHANGED <<pageVars, swControlled, swReqs, served, serverVersion,
                   renderVars, progressVars, sessionVars, uploadVars>>

\* The activate event: the caches of other releases are deleted, then
\* clients.claim() puts the open pages under the worker's control.
Activate ==
    /\ swPhase = "installed"
    /\ LET old == {cacheName \in DOMAIN caches :
                      /\ cacheName # STATIC_CACHE_NAME
                      /\ cacheName # DYNAMIC_CACHE_NAME
                      /\ StartsWithArqv30(cacheName)}
       IN caches' = [cacheName \in (DOMAIN caches) \ old |-> caches[cacheName]]
    /\ swPhase' = "activated"
    /\ swControlled' = TRUE
    /\ swFx' = SwFx("activate", "none", <<>>, "none", "none", <<>>)
    /\ UNCHANGED <<pageVars, swReqs, served, serverVersion, renderVars, progressVars, sessionVars, uploadVars>>

\* The fetch event of a request of a controlled page, up to the strategy's
\* first await on the network.  Strategy "none": the listener returns without
\* respondWith and the browser fetches the request itself.
FetchEvent(method, url) ==
    /\ swPhase = "activated"
    /\ served < MaxRequests
    /\ served' = served + 1
    /\ LET strategy == FetchStrategy(method, url)
           st == SWStart(caches, strategy, url)
       IN /\ caches' = st.cs
          /\ swReqs' = IF st.net
                       THEN swReqs \cup {[id |-> served', method |-> method, url |-> url,
                                          strategy |-> strategy, early |-> st.resp]}
                       ELSE swReqs
          /\ swFx' = SwFx("fetch", method, url, strategy, "none", st.resp)
    /\ UNCHANGED <<pageVars, swPhase, swControlled, serverVersion, renderVars, progressVars, sessionVars, uploadVars>>

\* The network answers (or fails) the request of a fetch event and the
\* strategy finishes.  A page that was answered from the cache at once keeps
\* that answer.
NetworkAnswer(req, kind) ==
    /\ req \in swReqs
    /\ swReqs' = swReqs \ {req}
    /\ LET out == [kind |-> kind, body |-> serverVersion]
           fin == SWNetwork(caches, req.strategy, req.url, out, req.early)
       IN /\ caches' = fin.cs
          /\ swFx' = IF req.early # <<>>
                     THEN SwFx("revalidate", req.method, req.url, req.strategy, kind, req.early)
                     ELSE SwFx("respond", req.method, req.url, req.strategy, kind, <<fin.resp>>)
    /\ UNCHANGED <<pageVars, swPhase, swControlled, served, serverVersion,
                   renderVars, progressVars, sessionVars, uploadVars>>

\* cleanupOldCaches, run by the worker's 24 hour interval: the entries of the
\* dynamic cache whose date header is older than seven days (expired) go.
CleanupOldCaches(expired) ==
    /\ swPhase # "parsed"
    /\ LET opened == CachesOpen(caches, DYNAMIC_CACHE_NAME)
           entries == opened[DYNAMIC_CACHE_NAME]
       IN /\ expired \subseteq DOMAIN entries
          /\ caches' = [opened EXCEPT ![DYNAMIC_CACHE_NAME] =
                           [u \in (DOMAIN entries) \ expired |-> entries[u]]]
    /\ swFx' = SwFx("cleanup", "none", <<>>, "none", "none", <<>>)
    /\ UNCHANGED <<pageVars, swPhase, swControlled, swReqs, served, serverVersion,
                   renderVars, progressVars, sessionVars, uploadVars>>

\* a new release is deployed on the server
Publish ==
    /\ serverVersion = "v1"
    /\ serverVersion' = "v2"
    /\ swFx' = SwQuiet
    /\ UNCHANGED <<pageVars, swPhase, swControlled, caches, swReqs, served,
                   renderVars, progressVars, sessionVars, uploadVars>>

\* the requests the pages of the application raise
Requests ==
    { [method |-> "GET", url |-> Origin \o <<"/", "static", "/", "css", "/", "main", ".", "css">>],
      [method |-> "GET", url |-> Origin \o <<"/", "api", "/", "app_status">>],
      [method |-> "GET", url |-> Origin \o <<"/", "api", "/", "analyze">>],
      [method |-> "POST", url |-> Origin \o <<"/", "api", "/", "analyze">>],
      [method |-> "GET", url |-> <<"chrome-extension:", "/", "/", "abc", "/", "inject", ".", "js">>] }

(***************************************************************************)
(* The renderer.  A JavaScript value is [t, v]: its type and its content   *)
(* (the text of a string or number, the items of an array, the             *)
(* <<key, value>> entries of an object in insertion order).  Markup is a   *)
(* sequence of tokens; accents are left out of the literal texts.          *)
(***************************************************************************)
Undefined == [t |-> "undefined", v |-> <<>>]
Null == [t |-> "null", v |-> <<>>]
Str(s) == [t |-> "string", v |-> <<s>>]
Num(n) == [t |-> "number", v |-> <<ToString(n)>>]
Arr(items) == [t |-> "array", v |-> items]
Obj(entries) == [t |-> "object", v |-> entries]

\* ToBoolean
Truthy(x) ==
    \/ x.t \in {"array", "object", "function"}
    \/ x.t = "string" /\ x.v # <<"">>
    \/ x.t = "number" /\ x.v # <<"0">>

\* typeof
TypeOf(x) == IF x.t \in {"null", "array", "object"} THEN "object" ELSE x.t

\* obj.key: the value of the entry, undefined when the object has no such key
Get(obj, key) ==
    IF obj.t = "object" /\ \E i \in 1..Len(obj.v) : obj.v[i][1] = key
    THEN obj.v[CHOOSE i \in 1..Len(obj.v) : obj.v[i][1] = key][2]
    ELSE Undefined

\* Array.prototype.join over strings and numbers: null and undefined items
\* give the empty string
RECURSIVE Join(_, _)
Join(items, sep) ==
    IF items = <<>> THEN <<>>
    ELSE (IF Head(items).t \in {"undefined", "null"} THEN <<>> ELSE Head(items).v)
         \o (IF Len(items) > 1 THEN <<sep>> \o Join(Tail(items), sep) ELSE <<>>)

\* ${x} in a template literal: String(x)
ToText(x) ==
    CASE x.t = "undefined" -> <<"undefined">>
      [] x.t = "null" -> <<"null">>
      [] x.t = "array" -> Join(x.v, ",")
      [] x.t = "object" -> <<"[object Object]">>
      [] OTHER -> x.v

\* x || fallback, interpolated
OrText(x, fallback) == IF Truthy(x) THEN ToText(x) ELSE <<fallback>>

\* new Date(x).toLocaleString('pt-BR')
IsoDates == {"2025-01-15T10:30:00"}
ToLocaleString(x) ==
    CASE x.t = "null" -> <<"01/01/1970, 00:00:00">>
      [] x.t = "string" /\ x.v[1] \in IsoDates -> <<"15/01/2025, 10:30:00">>
      [] x.t = "number" -> <<"01/01/1970, 00:00:00">>
      [] OTHER -> <<"Invalid Date">>

\* l => l.toUpperCase() on the first letter of a word
Capitalize(word) ==
    CASE word = "segmento" -> "Segmento"
      [] word = "canais" -> "Canais"
      [] word = "publico" -> "Publico"
      [] word = "alvo" -> "Alvo"
      [] OTHER -> word

\* key.replace(/_/g, ' ').replace(/\b\w/g, l => l.toUpperCase())
Label(key) == [i \in 1..Len(key) |-> IF key[i] = "_" THEN " " ELSE Capitalize(key[i])]

\* value.map(item => `<li>${item}</li>`).join('')
RECURSIVE ListItems(_)
ListItems(items) ==
    IF items = <<>> THEN <<>>
    ELSE <<"<li>">> \o ToText(Head(items)) \o <<"</li>">> \o ListItems(Tail(items))

\* Object.entries(obj)
Entries(obj) ==
    IF obj.t = "array"
    THEN [i \in 1..Len(obj.v) |-> << <<ToString(i - 1)>>, obj.v[i] >>]
    ELSE obj.v

RECURSIVE Cards(_)
Cards(entries) ==
    IF entries = <<>> THEN <<>>
    ELSE LET key == Head(entries)[1]
             value == Head(entries)[2]
         IN <<"<div class=info-card>", "<strong>">> \o Label(key) \o <<":", "</strong>">>
            \o (IF value.t = "array"
                THEN <<"<ul>">> \o ListItems(value.v) \o <<"</ul>">>
                ELSE <<"<span>">> \o ToText(value) \o <<"</span>">>)
            \o <<"</div>">> \o Cards(Tail(entries))

renderObjectAsCards(obj) ==
    IF ~Truthy(obj) \/ TypeOf(obj) # "object"
    THEN <<"<p>", "Nao informado", "</p>">>
    ELSE Cards(Entries(obj))

\* the phase cards of sequencia_psicologica.forEach
RECURSIVE PhaseCards(_)
PhaseCards(fases) ==
    IF fases = <<>> THEN <<>>
    ELSE LET fase == Head(fases)
         IN <<"<div class=phase-card>", "<h5>">> \o ToText(Get(fase, <<"fase">>)) \o <<"</h5>">>
            \o <<"Objetivo:">> \o ToText(Get(fase, <<"objetivo">>))
            \o <<"Tempo:">> \o ToText(Get(fase, <<"tempo">>))
            \o (IF Truthy(Get(fase, <<"tecnicas">>))
                THEN <<"Tecnicas:">> \o Join(Get(fase, <<"tecnicas">>).v, ", ")
                ELSE <<>>)
            \o <<"</div>">> \o PhaseCards(Tail(fases))

\* displayPrePitchSection: the innerHTML of #prePitchResults afterwards, which
\* held before
displayPrePitchSection(prePitch, before) ==
    IF ~Truthy(prePitch) THEN before
    ELSE LET orquestracao == Get(prePitch, <<"orquestracao_emocional">>)
             sequencia == Get(orquestracao, <<"sequencia_psicologica">>)
         IN <<"<div class=result-section>", "Pre-Pitch Invisivel">>
            \o (IF Truthy(orquestracao) /\ Truthy(sequencia)
                THEN <<"Orquestracao Emocional">> \o PhaseCards(sequencia.v)
                ELSE <<>>)
            \o <<"</div>">>

formatMetadataSummary(metadata) ==
    IF ~Truthy(metadata) THEN <<"<p>", "Dados nao disponiveis", "</p>">>
    ELSE <<"ID da Task:">> \o OrText(Get(metadata, <<"task_id">>), "N/A")
         \o <<"Processado em:">> \o ToLocaleString(Get(metadata, <<"processed_at">>))
         \o <<"Modo:">> \o OrText(Get(metadata, <<"processing_mode">>), "N/A")
         \o <<"Rodadas de Busca:">> \o OrText(Get(metadata, <<"search_rounds">>), "0")
         \o <<"IA Utilizada:">> \o OrText(Get(metadata, <<"ai_provider_used">>), "N/A")

\* an entry, or none when the server left the field out
Field(key, x) == IF x.t = "undefined" THEN <<>> ELSE << <<key, x>> >>

\* Analysis results the server can send: every field is either there, with a
\* text, a number or a list of texts, or left out.
InsightInputs ==
    {Undefined, Null, Str("texto")}
    \cup {Obj(Field(<<"segmento">>, s) \o Field(<<"publico", "_", "alvo">>, c)) :
             s \in {Undefined, Str("saude")},
             c \in {Undefined, Arr(<<>>), Arr(<<Str("B2B"), Str("B2C")>>)}}

FaseInputs ==
    {Obj(Field(<<"fase">>, f) \o Field(<<"objetivo">>, o) \o Field(<<"tempo">>, Str("5 min"))
         \o Field(<<"tecnicas">>, c)) :
        f \in {Str("quebra")}, o \in {Undefined, Str("despertar")},
        c \in {Undefined, Arr(<<Str("historia"), Str("prova")>>)}}

PrePitchInputs ==
    {Undefined, Obj(<<>>)}
    \cup {Obj(<< <<<<"orquestracao_emocional">>,
                   Obj(<< <<<<"sequencia_psicologica">>, Arr(<<fase>>)>> >>)>> >>) :
             fase \in FaseInputs}

MetadataInputs ==
    {Undefined}
    \cup {Obj(Field(<<"task_id">>, task) \o Field(<<"processed_at">>, at)
              \o Field(<<"search_rounds">>, rounds)) :
             task \in {Undefined, Str("task-1")},
             at \in {Undefined, Str("2025-01-15T10:30:00")},
             rounds \in {Undefined, Num(3)}}

NoResult == [insights |-> Undefined, pre_pitch |-> Undefined, metadata |-> Undefined]

AnalysisResults ==
    [insights : InsightInputs, pre_pitch : PrePitchInputs, metadata : MetadataInputs]

RenderInsights ==
    /\ rendered' = [rendered EXCEPT !.fn = "renderObjectAsCards",
                                     !.out = renderObjectAsCards(analysisResult.insights)]
    /\ UNCHANGED <<pageVars, swPhase, swControlled, caches, eventVars, analysisResult,
                   progressVars, sessionVars, uploadVars>>

DisplayPrePitch ==
    /\ LET html == displayPrePitchSection(analysisResult.pre_pitch, rendered.prePitchResults)
       IN rendered' = [fn |-> "displayPrePitchSection", out |-> html,
                       prePitchResults |-> html]
    /\ UNCHANGED <<pageVars, swPhase, swControlled, caches, eventVars, analysisResult,
                   progressVars, sessionVars, uploadVars>>

FormatMetadata ==
    /\ rendered' = [rendered EXCEPT !.fn = "formatMetadataSummary",
                                     !.out = formatMetadataSummary(analysisResult.metadata)]
    /\ UNCHANGED <<pageVars, swPhase, swControlled, caches, eventVars, analysisResult,
                   progressVars, sessionVars, uploadVars>>

(***************************************************************************)
(* AsyncAnalysisManager.updateProgressUI.  A poll response is the record   *)
(* [state, current, total, status, phase] of JavaScript values.            *)
(***************************************************************************)
\* what every object literal inherits from Object.prototype
ObjectPrototype ==
    LET Function(name) ==
            [t |-> "function", v |-> <<"function ", name, "() { [native code] }">>]
    IN [constructor |-> Function("Object"), toString |-> Function("toString"),
        valueOf |-> Function("valueOf"), hasOwnProperty |-> Function("hasOwnProperty")]

\* the object literal of updateProgressUI (the display names without their emoji)
phaseNames ==
    Obj(<<<<"validation", Str("Validacao")>>, <<"data_collection", Str("Coleta de Dados")>>,
          <<"ai_analysis", Str("Analise IA")>>, <<"finalization", Str("Finalizacao")>>>>)

\* obj[key]: the key is converted to a string; an own entry first, then the
\* prototype chain
GetProperty(obj, key) ==
    LET name == ToText(key)
    IN IF Len(name) # 1 THEN Undefined
       ELSE IF Get(obj, name[1]) # Undefined THEN Get(obj, name[1])
       ELSE IF name[1] \in DOMAIN ObjectPrototype THEN ObjectPrototype[name[1]]
       ELSE Undefined

\* progressBar.style.width = `${(current / total) * 100}%`: a width that is
\* not valid CSS (NaN%, Infinity%) leaves the property as it was; the numbers
\* the model uses give whole percentages
StyleWidth(current, total, width) ==
    LET NumValue(x) == CHOOSE n \in 0..100 : x.v = <<ToString(n)>>
    IN IF current.t = "number" /\ total.t = "number" /\ NumValue(total) # 0
       THEN <<ToString((NumValue(current) * 100) \div NumValue(total)), "%">>
       ELSE width

\* a || b || ''
PhaseText(phase) ==
    IF Truthy(GetProperty(phaseNames, phase)) THEN ToText(GetProperty(phaseNames, phase))
    ELSE IF Truthy(phase) THEN ToText(phase)
    ELSE <<"">>

updateProgressUI(status, ui) ==
    [width |-> StyleWidth(status.current, status.total, ui.width),
     step |-> OrText(status.status, "Processando..."),
     counter |-> ToText(status.current) \o <<"/">> \o ToText(status.total),
     phase |-> PhaseText(status.phase)]

StatusInputs ==
    [state : {"PENDING", "PROGRESS"}, current : {Undefined, Num(1), Num(4)},
     total : {Undefined, Num(4)}, status : {Undefined, Str(""), Str("Coletando dados")},
     phase : {Undefined, Null, Str(""), Str("validation"), Str("data_collection"),
              Str("ai_analysis"), Str("finalization"), Str("upload"), Str("constructor")}]

\* the interval callback of startStatusMonitoring up to updateProgressUI
UpdateProgressUI(status) ==
    /\ taskStatus' = status
    /\ progressUI' = updateProgressUI(status, progressUI)
    /\ UNCHANGED <<pageVars, swPhase, swControlled, caches, eventVars, renderVars,
                   sessionVars, uploadVars>>

(***************************************************************************)
(* FileUploadManager.  A file is [name, size, type]; its name is a         *)
(* sequence of tokens, "." being one of them.                              *)
(***************************************************************************)
maxFileSize == 16 * 1024 * 1024

allowedTypes ==
    { "application/pdf",
      "application/vnd.openxmlformats-officedocument.wordprocessingml.document",
      "application/msword",
      "application/vnd.openxmlformats-officedocument.spreadsheetml.sheet",
      "application/vnd.ms-excel",
      "text/csv",
      "text/plain",
      "application/json" }

allowedExtensions ==
    { <<".", "pdf">>, <<".", "doc">>, <<".", "docx">>, <<".", "xlsx">>,
      <<".", "xls">>, <<".", "csv">>, <<".", "txt">>, <<".", "json">> }

\* String.prototype.toLowerCase on a token
toLowerCase(token) ==
    CASE token = "PDF" -> "pdf"
      [] token = "Relatorio" -> "relatorio"
      [] OTHER -> token

\* file.name.split('.').pop(): what follows the last "."
RECURSIVE LastSegment(_)
LastSegment(name) ==
    IF \E i \in 1..Len(name) : name[i] = "."
    THEN LastSegment(SubSeq(name, (CHOOSE i \in 1..Len(name) : name[i] = ".") + 1, Len(name)))
    ELSE name

\* '.' + file.name.split('.').pop().toLowerCase()
fileExtension(name) ==
    <<".">> \o [i \in 1..Len(LastSegment(name)) |-> toLowerCase(LastSegment(name)[i])]

validateFile(file) ==
    IF file.size > maxFileSize
    THEN [valid |-> FALSE, message |-> "muito grande"]
    ELSE IF ~(file.type \in allowedTypes \/ fileExtension(file.name) \in allowedExtensions)
    THEN [valid |-> FALSE, message |-> "nao suportado"]
    ELSE [valid |-> TRUE, message |-> "none"]

\* The text an element ends up with when markup is assigned to its innerHTML
\* and textContent is read back: the parser turns a tag into an element and a
\* character reference into the character.
IsTag(token) == token \in {"<b>", "</b>"}
DecodeReference(token) == IF token = "&amp;" THEN "&" ELSE token
TextContent(markup) ==
    LET text == SelectSeq(markup, LAMBDA token : ~IsTag(token))
    IN [i \in 1..Len(text) |-> DecodeReference(text[i])]

\* addFileToUI: the .file-item appended to #uploadedFiles for file
addFileToUI(items, id, file) ==
    [i \in (DOMAIN items) \cup {id} |->
        IF i = id THEN [name |-> TextContent(file.name), status |-> <<"Processando...">>]
        ELSE items[i]]

\* uploadFile's lookup of the element: no element has data-file-id
\* "undefined" (file._fileData is never set), so it is the first .file-item,
\* in document order, whose .file-name reads file.name; 0 when there is none
FindFileElement(items, file) ==
    LET found == {i \in DOMAIN items : items[i].name = file.name}
    IN IF found = {} THEN 0 ELSE CHOOSE i \in found : \A j \in found : i <= j

\* JSON.parse(xhr.responseText): it throws for a body that is no JSON
JSONParse(body) ==
    CASE body = "success" ->
            [throws |-> FALSE, success |-> TRUE, content_type |-> "application/pdf"]
      [] body = "rejected" ->
            [throws |-> FALSE, success |-> FALSE, content_type |-> "none"]
      [] OTHER -> [throws |-> TRUE, success |-> FALSE, content_type |-> "none"]

\* statusElement.textContent = ..., on an element that may have been removed
SetStatus(items, element, status) ==
    IF element \in DOMAIN items
    THEN [items EXCEPT ![element] = [@ EXCEPT !.status = status]]
    ELSE items

\* `${response.content_type} • Processado`
Processed(content_type) == <<content_type, " - Processado">>

UpFx(op, file, msg, item, element, sent) ==
    [op |-> op, file |-> file, msg |-> msg, item |-> item, element |-> element,
     sent |-> sent, answer |-> <<0, "">>]
NoFile == [name |-> <<>>, size |-> 0, type |-> ""]
UpQuiet == UpFx("none", NoFile, "none", 0, 0, FALSE)

\* processFile: validateFile, addFileToUI, uploadFile up to xhr.send
ProcessFile(file) ==
    /\ filesHandled < MaxFiles
    /\ filesHandled' = filesHandled + 1
    /\ IF ~validateFile(file).valid
       THEN /\ upFx' = UpFx("processFile", file, validateFile(file).message, 0, 0, FALSE)
            /\ UNCHANGED <<fileItems, xhrs>>
       ELSE LET id == filesHandled'
                items == addFileToUI(fileItems, id, file)
                element == FindFileElement(items, file)
            IN /\ fileItems' = items
               /\ IF element = 0
                  THEN /\ upFx' = UpFx("processFile", file, "none", id, 0, FALSE)
                       /\ UNCHANGED xhrs
                  ELSE /\ xhrs' = xhrs \cup {[item |-> id, element |-> element,
                                                session_id |-> uploadSessionId(appSessionId)]}
                       /\ upFx' = UpFx("processFile", file, "none", id, element, TRUE)
    /\ UNCHANGED <<pageVars, swPhase, swControlled, caches, eventVars, renderVars, progressVars, sessionVars>>

\* the XHR's load event: status and body of the server's answer
XhrLoad(xhr, status, body) ==
    /\ xhr \in xhrs
    /\ xhrs' = xhrs \ {xhr}
    /\ IF status # 200
       THEN \* onUploadError(fileElement, 'Erro no servidor')
            /\ fileItems' = SetStatus(fileItems, xhr.element, <<"Erro no processamento">>)
            /\ upFx' = [UpFx("load", NoFile, "error", xhr.item, xhr.element, FALSE)
                        EXCEPT !.answer = <<status, body>>]
       ELSE IF JSONParse(body).throws
       THEN \* the exception leaves the listener
            /\ upFx' = [UpFx("load", NoFile, "none", xhr.item, xhr.element, FALSE)
                        EXCEPT !.answer = <<status, body>>]
            /\ UNCHANGED fileItems
       ELSE IF JSONParse(body).success
       THEN \* onUploadSuccess(fileElement, response)
            /\ fileItems' = SetStatus(fileItems, xhr.element,
                                      Processed(JSONParse(body).content_type))
            /\ upFx' = [UpFx("load", NoFile, "success", xhr.item, xhr.element, FALSE)
                        EXCEPT !.answer = <<status, body>>]
       ELSE \* onUploadError(fileElement, response.error || 'Erro desconhecido')
            /\ fileItems' = SetStatus(fileItems, xhr.element, <<"Erro no processamento">>)
            /\ upFx' = [UpFx("load", NoFile, "error", xhr.item, xhr.element, FALSE)
                        EXCEPT !.answer = <<status, body>>]
    /\ UNCHANGED <<pageVars, swPhase, swControlled, caches, eventVars, renderVars, progressVars, sessionVars,
                   filesHandled>>

\* the XHR's error event: onUploadError(fileElement, 'Erro de conexao')
XhrError(xhr) ==
    /\ xhr \in xhrs
    /\ xhrs' = xhrs \ {xhr}
    /\ fileItems' = SetStatus(fileItems, xhr.element, <<"Erro no processamento">>)
    /\ upFx' = UpFx("error", NoFile, "error", xhr.item, xhr.element, FALSE)
    /\ UNCHANGED <<pageVars, swPhase, swControlled, caches, eventVars, renderVars, progressVars, sessionVars,
                   filesHandled>>

\* removeFile(fileId), from the item's remove button
RemoveFile(id) ==
    /\ id \in DOMAIN fileItems
    /\ fileItems' = [i \in (DOMAIN fileItems) \ {id} |-> fileItems[i]]
    /\ upFx' = UpFx("removeFile", NoFile, "none", id, id, FALSE)
    /\ UNCHANGED <<pageVars, swPhase, swControlled, caches, eventVars, renderVars, progressVars, sessionVars,
                   xhrs, filesHandled>>

\* the files the user drops
FileNames ==
    { <<"Relatorio", ".", "PDF">>,
      <<"notas", ".", "exe">>,
      <<"P", "&amp;", "D", ".", "pdf">>,
      <<"plano", "<b>", ".", "txt">> }
Files ==
    [name : FileNames,
     size : {maxFileSize, maxFileSize + 1},
     type : {"application/pdf", "image/png"}]

\* what the upload endpoint answers with: status and body
UploadAnswers ==
    { <<200, "success">>, <<200, "rejected">>, <<200, "<html>">>, <<500, "<html>">> }

(***************************************************************************)
(* The page: both managers on one form.                                    *)
(***************************************************************************)
vars == <<pageVars, swPhase, swControlled, caches, eventVars, renderVars,
          progressVars, sessionVars, uploadVars>>

\* the page after DOMContentLoaded: both constructors have run
PageInit ==
    /\ clicks = 0
    /\ fx = Quiet
    /\ isAnalyzing = FALSE
    /\ currentStep = 0
    /\ analysisStartTime = 0
    /\ syncReqs = {}
    /\ animTimers = <<>>
    /\ displayTimers = {}
    /\ progressArea = "none"
    /\ resultsArea = "none"
    /\ currentTaskId = 0
    /\ statusCheckInterval = 0
    /\ timers = {}
    /\ nextTimerId = 1
    /\ asyncPosts = 0
    /\ polls = EmptyBag
    /\ asyncProgressArea = "none"
    /\ lastResult = 0
    /\ taskState = <<>>
    /\ downloadPdfBtn = 0
    /\ pdfReqs = {}
    /\ downloads = 0

\* the worker's script has been fetched and parsed; nothing is cached
WorkerInit ==
    /\ swPhase = "parsed"
    /\ swControlled = FALSE
    /\ caches = <<>>
    /\ swReqs = {}
    /\ swFx = SwQuiet
    /\ served = 0
    /\ serverVersion = "v1"

\* nothing has been rendered
RenderIdle ==
    /\ analysisResult = NoResult
    /\ rendered = [fn |-> "none", out |-> <<>>, prePitchResults |-> <<>>]

\* new FileUploadManager(): #uploadedFiles is empty
UploadInit ==
    /\ fileItems = <<>>
    /\ xhrs = {}
    /\ filesHandled = 0
    /\ upFx = UpQuiet

\* the progress area as the page's markup has it
ProgressIdle ==
    /\ taskStatus = [state |-> "none", current |-> Undefined, total |-> Undefined,
                     status |-> Undefined, phase |-> Undefined]
    /\ progressUI = [width |-> <<"0", "%">>, step |-> <<>>, counter |-> <<>>, phase |-> <<>>]

\* new ARQVApp() has generated its sessionId; localStorage holds the
\* identifier of an earlier visit
SessionInit ==
    /\ appSessionId = "session_1_a"
    /\ storedSessionId = "session_2_b"

Init == PageInit /\ WorkerInit /\ RenderIdle /\ ProgressIdle /\ SessionInit /\ UploadInit

NextSync ==
    \/ \E value \in SegmentoValues : StartAnalysis(value)
    \/ \E a \in DOMAIN animTimers : AnimTimer(a)
    \/ \E a \in syncReqs, kind \in NetOutcomes : SyncResponse(a, kind)
    \/ \E a \in displayTimers : DisplayTimer(a)

NextAsync ==
    \/ \E value \in SegmentoValues : StartAsyncAnalysis(value)
    \/ \E kind \in NetOutcomes : AsyncPostResponse(kind)
    \/ \E t \in DOMAIN taskState, next \in TaskStates : ServerStep(t, next)
    \/ \E id \in timers : Tick(id)
    \/ \E poll \in InFlight, kind \in NetOutcomes : PollFromNetwork(poll, kind)

\* The page while no worker controls it (first visit, or no Service Worker
\* support): its requests go to the network.
Next == NextSync \/ NextAsync

Spec == Init /\ [][Next]_vars

\* The page with the exports of both flows.
NextExport == NextSync \/ NextAsync \/ DownloadPdf \/ NextReport

SpecExport == Init /\ [][NextExport]_vars

\* The asynchronous flow and the exports of its dashboard.
NextDashboard == NextAsync \/ NextReport

SpecDashboard == Init /\ [][NextDashboard]_vars

\* The asynchronous flow on a page whose worker installs, activates and
\* takes control.
NextControlled ==
    \/ NextAsync
    \/ \E poll \in InFlight : PollFromCache(poll)
    \/ \E kind \in NetOutcomes : Install(kind)
    \/ Activate

SpecControlled == Init /\ [][NextControlled]_vars

\* The same page with a network that is up: every request is answered 200.
NextReliable ==
    \/ \E value \in SegmentoValues : StartAsyncAnalysis(value)
    \/ AsyncPostResponse("ok")
    \/ \E t \in DOMAIN taskState, next \in TaskStates : ServerStep(t, next)
    \/ \E id \in timers : Tick(id)
    \/ \E poll \in InFlight : PollFromNetwork(poll, "ok")
    \/ \E poll \in InFlight : PollFromCache(poll)
    \/ Install("ok")
    \/ Activate

\* every status request that can be in flight
PollKinds ==
    [task : 0..MaxClicks, strategy : {"none", "cacheFirst"},
     early : {<<>>} \cup {<<CachedResponse(b)>> : b \in TaskStates}, net : BOOLEAN]

\* The interval timers keep firing, every request is answered, the worker
\* answers what it serves from its cache, and the task queue finishes its tasks.
FairControlled ==
    /\ Init /\ [][NextReliable]_vars
    /\ \A id \in 1..MaxClicks : WF_vars(Tick(id))
    /\ \A poll \in PollKinds : WF_vars(PollFromNetwork(poll, "ok"))
    /\ \A poll \in PollKinds : WF_vars(PollFromCache(poll))
    /\ WF_vars(AsyncPostResponse("ok"))
    /\ WF_vars(\E t \in DOMAIN taskState, next \in TaskStates : ServerStep(t, next))

\* The worker alone: its life cycle and the fetch events of the pages' requests.
\* A release that used CACHE_NAME may have left its cache behind.
InitSW ==
    /\ PageInit /\ RenderIdle /\ ProgressIdle /\ SessionInit /\ UploadInit
    /\ swPhase = "parsed"
    /\ swControlled = FALSE
    /\ \/ caches = <<>>
       \/ caches = (CACHE_NAME :> (Origin \o <<"/">> :> "v0"))
    /\ swReqs = {}
    /\ swFx = SwQuiet
    /\ served = 0
    /\ serverVersion = "v1"

NextSW ==
    \/ \E kind \in NetOutcomes : Install(kind)
    \/ Activate
    \/ \E request \in Requests : FetchEvent(request.method, request.url)
    \/ \E req \in swReqs, kind \in NetOutcomes : NetworkAnswer(req, kind)
    \/ \E expired \in SUBSET (DOMAIN CachesOpen(caches, DYNAMIC_CACHE_NAME)[DYNAMIC_CACHE_NAME]) :
          CleanupOldCaches(expired)
    \/ Publish

SpecSW == InitSW /\ [][NextSW]_vars

\* The renderer on the analysis results the server can send.
InitRender ==
    /\ PageInit /\ WorkerInit /\ ProgressIdle /\ SessionInit /\ UploadInit
    /\ analysisResult \in AnalysisResults
    /\ rendered = [fn |-> "none", out |-> <<>>, prePitchResults |-> <<>>]

NextRender == RenderInsights \/ DisplayPrePitch \/ FormatMetadata

SpecRender == InitRender /\ [][NextRender]_vars

\* The upload manager and the files the user drops on it.
NextUpload ==
    \/ \E file \in Files : ProcessFile(file)
    \/ \E xhr \in xhrs, answer \in UploadAnswers : XhrLoad(xhr, answer[1], answer[2])
    \/ \E xhr \in xhrs : XhrError(xhr)
    \/ \E id \in DOMAIN fileItems : RemoveFile(id)

SpecUpload == Init /\ [][NextUpload]_vars

\* The progress display and the poll responses it is given.
NextProgress == \E status \in StatusInputs : UpdateProgressUI(status)

SpecProgress == Init /\ [][NextProgress]_vars

\* One page session: uploads and analyses of a first or a returning visitor.
InitSession ==
    /\ PageInit /\ WorkerInit /\ RenderIdle /\ ProgressIdle /\ UploadInit
    /\ appSessionId \in SessionIds
    /\ storedSessionId \in SessionIds \cup {"null"}

\* the uploads, and the start of an analysis up to the answer to its POST
NextSession ==
    \/ NextUpload
    \/ \E value \in SegmentoValues : StartAnalysis(value)
    \/ \E a \in syncReqs, kind \in NetOutcomes : SyncResponse(a, kind)
    \/ \E value \in SegmentoValues : StartAsyncAnalysis(value)
    \/ \E kind \in NetOutcomes : AsyncPostResponse(kind)

SpecSession == InitSession /\ [][NextSession]_vars

(***************************************************************************)
(* Claims about the analysis managers.                                     *)
(***************************************************************************)
TerminalHandled ==
    fx.op = "statusResponse" /\ fx.msg \in {"complete", "analysisError"}

\* C1: once a status response with state SUCCESS or FAILURE has been
\* processed, no polling timer remains active (so no further task_status
\* request can be issued), whatever the sequence of startAsyncAnalysis calls
\* and responses was.
C1_StopsPolling == TerminalHandled => timers = {}

\* C2: a task that is being polled and has reached SUCCESS or FAILURE on the
\* server is eventually observed by the client, which then handles it and
\* stops polling (statusCheckInterval is cleared only by stopStatusMonitoring
\* after onAnalysisComplete / onAnalysisError), also on a page the Service
\* Worker controls.
C2_PipelineCompletes ==
    \A t \in 1..MaxClicks :
        (/\ currentTaskId = t
         /\ statusCheckInterval # 0
         /\ t \in DOMAIN taskState
         /\ taskState[t] \in Terminal)
            ~> (statusCheckInterval = 0 \/ currentTaskId # t)

\* empty or only white space
IsBlank(value) == \A i \in 1..Len(value) : value[i] = " "

BlankStart ==
    /\ fx.op \in {"startAnalysis", "startAsyncAnalysis"}
    /\ IsBlank(fx.input)

ManagerStateUnchanged ==
    UNCHANGED <<isAnalyzing, currentStep, analysisStartTime, currentTaskId,
                statusCheckInterval>>

\* C10 as stated: a start handler that finds 'segmento' empty or blank sends
\* no request, shows the error message and leaves the manager's state
\* unchanged, with isAnalyzing false.
C10_BlankAlwaysReported ==
    [][BlankStart' =>
          /\ fx'.sent = "none"
          /\ fx'.msg = "validation"
          /\ ManagerStateUnchanged
          /\ ~isAnalyzing']_vars

\* C10 amended: a start handler that finds 'segmento' empty or blank sends no
\* request and leaves the manager's state unchanged; it shows the error
\* message unless it is startAnalysis called while an analysis is running,
\* which returns before validating and shows nothing.
C10_BlankSendsNothing ==
    [][BlankStart' =>
          /\ fx'.sent = "none"
          /\ ManagerStateUnchanged
          /\ UNCHANGED <<syncReqs, asyncPosts, timers, polls>>
          /\ (fx'.msg = "validation") <=> ~(fx'.op = "startAnalysis" /\ isAnalyzing)]_vars

\* a blank 'segmento' rejected by startAsyncAnalysis while a task is polled
C10_Witness ==
    /\ BlankStart
    /\ fx.op = "startAsyncAnalysis"
    /\ fx.msg = "validation"
    /\ currentTaskId # 0
    /\ statusCheckInterval # 0

(***************************************************************************)
(* Claims about the renderer.                                              *)
(***************************************************************************)
\* C3: for every field the render functions read from the analysis result,
\* when the field is absent the markup carries a fallback string in its place
\* and never the text 'undefined', 'null' or 'Invalid Date'.
C3_FallbackForMissing ==
    \A i \in 1..Len(rendered.out) :
        rendered.out[i] \notin {"undefined", "null", "Invalid Date"}

(***************************************************************************)
(* Claims about the upload manager.                                        *)
(***************************************************************************)
\* size <= 16 MB and (type allowed or lower-cased extension allowed)
UploadAllowed(file) ==
    /\ file.size <= 16 * 1024 * 1024
    /\ \/ file.type \in allowedTypes
       \/ fileExtension(file.name) \in allowedExtensions

\* C4: processFile adds the file to the UI and starts an upload request if and
\* only if the file is within 16 MB and of an allowed type or extension; for
\* every other file it shows an error, creates no UI item and sends no request.
C4_ValidationIff ==
    upFx.op = "processFile" =>
        IF UploadAllowed(upFx.file)
        THEN upFx.item \in DOMAIN fileItems /\ upFx.sent
        ELSE upFx.msg # "none" /\ upFx.item = 0 /\ ~upFx.sent

\* C5: an accepted file gets an item with status 'Processando...', and when
\* its request has finished (load or error) the item reads
\* '<content_type> - Processado' after HTTP 200 with success true and
\* 'Erro no processamento' after every other outcome.
C5_StatusAfterUpload ==
    /\ (upFx.op = "processFile" /\ validateFile(upFx.file).valid) =>
          /\ upFx.item \in DOMAIN fileItems
          /\ fileItems[upFx.item].status = <<"Processando...">>
    /\ (upFx.op \in {"load", "error"} /\ upFx.item \in DOMAIN fileItems) =>
          fileItems[upFx.item].status =
              IF upFx.answer = <<200, "success">>
              THEN <<"application/pdf", " - Processado">>
              ELSE <<"Erro no processamento">>

(***************************************************************************)
(* Claims about the Service Worker.                                        *)
(***************************************************************************)
StaticCached(cs) ==
    IF STATIC_CACHE_NAME \in DOMAIN cs THEN DOMAIN cs[STATIC_CACHE_NAME] ELSE {}

\* this step is the fetch event of a GET the listener handles
HandledGet == served' = served + 1 /\ swFx'.method = "GET" /\ StartsWithHttp(swFx'.url)

\* C6: what the static cache holds stays there, and a GET classified as a
\* static file whose response is in the cache is answered by cacheFirst with
\* the cached response, and no network request is made for it.
C6_CachedStaticServed ==
    [][/\ StaticCached(caches) \subseteq StaticCached(caches')
       /\ (HandledGet /\ isStaticFile(swFx'.url) /\ CachesMatch(caches, swFx'.url) # <<>>) =>
             /\ swFx'.strategy = "cacheFirst"
             /\ swFx'.resp = <<CachedResponse(CachesMatch(caches, swFx'.url)[1])>>
             /\ swReqs' = swReqs
             /\ caches' = caches]_vars

\* a style sheet served from the cache after the server moved on to a new release
C6_Witness ==
    /\ swFx.op = "fetch"
    /\ swFx.url = Origin \o <<"/", "static", "/", "css", "/", "main", ".", "css">>
    /\ swFx.strategy = "cacheFirst"
    /\ swFx.resp = <<CachedResponse("v1")>>
    /\ serverVersion = "v2"

\* C7: when the promise of the install event has resolved, every URL of
\* STATIC_FILES is in the cache 'arqv30-static-v2.0'.
C7_InstallCachesAll ==
    swPhase \in {"installed", "activated"} =>
        \A file \in STATIC_FILES : Resolve(file) \in StaticCached(caches)

\* C8: a GET the worker handles whose URL contains '/api/analyze',
\* '/api/upload_attachment' or '/generate-pdf' is answered by networkOnly: the
\* response comes from the network or is the synthesized 503, and no cache is
\* read or written.
C8_AnalysisNetworkOnly ==
    [][(swFx'.op \in {"fetch", "respond", "revalidate"} /\ swFx'.method = "GET"
        /\ StartsWithHttp(swFx'.url) /\ isAnalysisRequest(swFx'.url)) =>
          /\ swFx'.strategy = "networkOnly"
          /\ swFx'.resp # <<>> => swFx'.resp[1].src \in {"network", "synth"}
          /\ caches' = caches]_vars

\* C9: for a GET whose URL contains '/api/health', '/api/app_status' or
\* '/api/stats' the page is not answered before the network was asked; an ok
\* response of the network is what the page receives and is stored in the
\* dynamic cache; a cached copy is served only after the network failed or
\* answered non-ok.
C9_ApiNetworkFirst ==
    (swFx.method = "GET" /\ StartsWithHttp(swFx.url) /\ isAPIRequest(swFx.url)) =>
        /\ swFx.op = "fetch" => swFx.resp = <<>>
        /\ (swFx.op = "respond" /\ swFx.out = "ok") =>
              /\ swFx.resp[1].src = "network"
              /\ DYNAMIC_CACHE_NAME \in DOMAIN caches
              /\ swFx.url \in DOMAIN caches[DYNAMIC_CACHE_NAME]
        /\ (swFx.resp # <<>> /\ swFx.resp[1].src = "cache") => swFx.out \in {"notok", "fail"}

(***************************************************************************)
(* Claims about the exports.                                               *)
(***************************************************************************)
\* C11: whenever downloadReport produces a TXT, PDF or JSON export, the
\* exported data is the result of the task currentTaskId identifies.
C11_ExportsCurrentTask ==
    (fx.op = "downloadReport" /\ (fx.msg = "download" \/ fx.sent # "none")) =>
        fx.task = currentTaskId

\* C12: downloadReport called while no task has been started shows the error
\* 'Nenhuma analise disponivel para download', produces no download, sends no
\* request and reads nothing from localStorage.
C12_NoTaskNoDownload ==
    [][(downloads' # downloads /\ fx'.op = "downloadReport" /\ currentTaskId = 0) =>
          /\ fx'.msg = "noAnalysis"
          /\ fx'.sent = "none"
          /\ pdfReqs' = pdfReqs
          /\ fx'.input \in {<<format>> : format \in Formats}
          /\ UNCHANGED <<currentTaskId, lastResult>>]_vars

\* downloadReport('pdf') refused before any task was started, while an
\* earlier request is still unanswered
C12_Witness ==
    /\ fx.op = "downloadReport"
    /\ fx.input = <<"pdf">>
    /\ fx.msg = "noAnalysis"
    /\ currentTaskId = 0
    /\ asyncPosts > 0

\* C13: every PDF generation request, of the synchronous and of the
\* asynchronous flow, is a POST to /generate-pdf.
C13_PdfEndpoint ==
    \A req \in pdfReqs : req.method = "POST" /\ req.url = "/generate-pdf"

(***************************************************************************)
(* Claims about the progress display.                                      *)
(***************************************************************************)
DisplayNames ==
    [validation |-> "Validacao", data_collection |-> "Coleta de Dados",
     ai_analysis |-> "Analise IA", finalization |-> "Finalizacao"]

\* C14: after updateProgressUI the phase indicator reads the display name of
\* status.phase for the four phases, the raw status.phase for any other
\* non-empty value and the empty string when the phase is missing; the step
\* text reads status.status, or 'Processando...' when that is missing.
C14_PhaseIndicator ==
    taskStatus.state # "none" =>
        /\ progressUI.phase =
              IF taskStatus.phase.t = "string" /\ taskStatus.phase.v # <<"">>
              THEN IF taskStatus.phase.v[1] \in DOMAIN DisplayNames
                   THEN <<DisplayNames[taskStatus.phase.v[1]]>>
                   ELSE taskStatus.phase.v
              ELSE <<"">>
        /\ progressUI.step =
              IF taskStatus.status.t = "string" /\ taskStatus.status.v # <<"">>
              THEN taskStatus.status.v
              ELSE <<"Processando...">>

(***************************************************************************)
(* Claims about the requests the worker leaves alone.                      *)
(***************************************************************************)
\* C15: for a request whose method is not GET, or whose URL does not start
\* with http, the fetch listener returns without respondWith: the request
\* goes to the network as the browser's own, what the page gets is the
\* network's answer, and no cache is changed.
C15_SkipsNonGet ==
    [][(swReqs' # swReqs /\ (swFx'.method # "GET" \/ ~StartsWithHttp(swFx'.url))) =>
          /\ swFx'.strategy = "none"
          /\ caches' = caches
          /\ \A req \in swReqs' \ swReqs : req.strategy = "none" /\ req.early = <<>>
          /\ IF swFx'.op = "fetch" THEN swFx'.resp = <<>>
             ELSE swFx'.op = "respond" /\ swFx'.resp[1].src \in {"network", "error"}]_vars

\* a POST passed through although a cache holds an entry for its URL
C15_Witness ==
    /\ swFx.op = "fetch"
    /\ swFx.method = "POST"
    /\ swFx.strategy = "none"
    /\ \E name \in DOMAIN caches : swFx.url \in DOMAIN caches[name]

(***************************************************************************)
(* Claims about the polling of the asynchronous flow.                      *)
(***************************************************************************)
\* C16: at every moment at most one status-polling timer is active and
\* statusCheckInterval refers to it, so no timer runs that
\* stopStatusMonitoring cannot clear.
C16_OneTimer ==
    /\ Cardinality(timers) <= 1
    /\ timers # {} => timers = {statusCheckInterval}

\* C17: the terminal state of a task is handled once: a response that makes
\* onAnalysisComplete or onAnalysisError run is never one for a task whose
\* result onAnalysisComplete has already stored, nor for the task the
\* previous step already finished.
C17_HandledOnce ==
    [][(polls' # polls /\ TerminalHandled') =>
          /\ ~(fx'.msg = "complete" /\ lastResult = fx'.task)
          /\ ~(TerminalHandled /\ fx.task = fx'.task)]_vars

\* C18: a poll response that makes updateProgressUI, onAnalysisComplete or
\* onAnalysisError run was returned for the task currentTaskId names at that
\* moment.
C18_ResponseOfCurrentTask ==
    (fx.op = "statusResponse" /\ fx.msg # "none") => fx.task = currentTaskId

(***************************************************************************)
(* Claims about the synchronous analysis.                                  *)
(***************************************************************************)
\* C19: at most one POST /api/analyze is in flight, isAnalyzing is true
\* exactly while it is (so it is false again once the request has succeeded
\* or failed), and a startAnalysis called while isAnalyzing is true, by
\* whichever listener, changes nothing and sends nothing.
C19_OneAnalysis ==
    [][/\ Cardinality(syncReqs') <= 1
       /\ isAnalyzing' <=> syncReqs' # {}
       /\ (clicks' # clicks /\ fx'.op = "startAnalysis" /\ isAnalyzing) =>
             /\ fx'.sent = "none"
             /\ fx'.msg = "none"
             /\ UNCHANGED <<syncVars, resultsArea, asyncVars, exportVars>>]_vars

\* a startAnalysis with a valid 'segmento' ignored because a request is in flight
C19_Witness ==
    /\ fx.op = "startAnalysis"
    /\ ~IsBlank(fx.input)
    /\ fx.sent = "none"
    /\ isAnalyzing
    /\ Cardinality(syncReqs) = 1

\* C20: while isAnalyzing is true the results area is not shown and the
\* progress area is not hidden, and displayResults runs only for the analysis
\* started last and only when none is running.
C20_NoResultsWhileAnalyzing ==
    /\ isAnalyzing => (resultsArea = "none" /\ progressArea = "block")
    /\ fx.op = "displayResults" => (~isAnalyzing /\ fx.task = analysisStartTime)

(***************************************************************************)
(* Claims about the session identifier.                                    *)
(***************************************************************************)
\* the session_id of the uploads in flight and of the upload answered last
UploadSessionIds ==
    {xhr.session_id : xhr \in xhrs}
        \cup (IF upFx.op \in {"load", "error"} THEN {uploadSessionId(appSessionId)} ELSE {})

\* C21: the session_id sent with the attachment uploads of a page session
\* equals the session_id sent with its analysis request (the identifier
\* getSessionId returned, which localStorage holds from then on).
C21_SameSession ==
    fx.sent \in {"POST /api/analyze", "POST /api/analyze_async"} =>
        \A id \in UploadSessionIds : id = storedSessionId

(***************************************************************************)
(* Claims about polls that do not end the polling.                         *)
(***************************************************************************)
\* C22: a status poll that fails (no response, or a body that cannot be
\* parsed) or that carries a state other than SUCCESS and FAILURE calls
\* neither onAnalysisComplete nor onAnalysisError and leaves the polling
\* timers, statusCheckInterval and currentTaskId as they are, so the next
\* ticks go on polling.
C22_FailedPollKeepsPolling ==
    [][(polls' # polls /\ fx'.op = "statusResponse" /\ fx'.input[1] \notin Terminal) =>
          /\ fx'.msg \in {"none", "progress"}
          /\ UNCHANGED <<timers, statusCheckInterval, currentTaskId, lastResult,
                         asyncProgressArea, resultsArea>>]_vars

\* a poll failed although its task has finished, and the timer is still running
C22_Witness ==
    /\ fx.op = "statusResponse"
    /\ fx.input = <<"throws">>
    /\ fx.task = currentTaskId
    /\ taskState[fx.task] \in Terminal
    /\ statusCheckInterval \in timers

====
